---- MODULE Spec2Model ----
(***************************************************************************)
(* Two-hop pipeline of goexpert-lab-2-observabilidade:                     *)
(*   client -> service-a zipCodeHandler -> service-b temperatureHandler    *)
(*          -> location provider (viacep) -> weather provider (weatherapi) *)
(* service-a is modelled from the traced handler of service-a/main.go       *)
(* (lines 130-191), service-b from the traced handler.temperatureHandler   *)
(* with getLocation and getWeather.  Spans created inside the otelhttp     *)
(* wrappers are not listed in spans; only their trace context is kept.     *)
(* One request is followed end to end; handlers share no mutable state, so *)
(* a request's behaviour does not depend on any other request.             *)
(*                                                                         *)
(* Strings are sequences of runes.  A rune is written as a one-character   *)
(* string, except the two non-ASCII runes, written "U+00E9" and "U+00E3".  *)
(* Temperatures are fixed-point integers in hundredths of a degree.        *)
(***************************************************************************)
EXTENDS Integers, Sequences, FiniteSets, TLC

\* ------------------------------------------------------------------ bounds
MaxLen == 9          \* longest postal-code string a client sends (runes)
MaxTraceId == 2      \* number of distinct trace ids available

\* ------------------------------------------------------- program constants
ZipLen == 8
StatusOK == 200
StatusBadRequest == 400
StatusNotFound == 404
StatusMethodNotAllowed == 405
StatusPreconditionFailed == 412
StatusInternalServerError == 500

\* ------------------------------------------------------------------ runes
Digits == {"1"}
ZipAlphabet == {"1", "a", "U+00E9"}
NonAscii == {"U+00E9", "U+00E3"}

ZipStrings == UNION {[1..k -> ZipAlphabet] : k \in 0..MaxLen}

\* Go's len(s) counts bytes of the UTF-8 encoding, not runes.
ByteWidth(r) == IF r \in NonAscii THEN 2 ELSE 1

RECURSIVE ByteLen(_)
ByteLen(s) == IF s = <<>> THEN 0 ELSE ByteWidth(Head(s)) + ByteLen(Tail(s))

\* service-a: regexp.MatchString(`^\d{8}$`, zipCode); \d is [0-9] in RE2 and
\* $ matches only at the end of the text.
isValidZipCodeLenOnly(zipCode) == Len(zipCode) = ZipLen

isValidZipCode(zipCode) ==
    /\ Len(zipCode) = ZipLen
    /\ \A i \in 1..Len(zipCode) : zipCode[i] \in Digits

\* service-b: len(zipCode) != 8 is the only shape test.
zipCodeAcceptedByB(zipCode) == ByteLen(zipCode) = ZipLen

\* ------------------------------------------------------------ url escaping
Unreserved == {"1", "a", "R", "i", "o", "S", "P", "A", "B", "-", "_", ".", "~"}

\* UTF-8 bytes of a rune that url.QueryEscape percent-encodes, as hex pairs.
Utf8Hex(r) ==
    CASE r = "U+00E3" -> << <<"C", "3">>, <<"A", "3">> >>
      [] r = "U+00E9" -> << <<"C", "3">>, <<"A", "9">> >>
      [] r = "+"      -> << <<"2", "B">> >>
      [] r = "%"      -> << <<"2", "5">> >>
      [] OTHER        -> << <<"3", "F">> >>

RECURSIVE PercentEncode(_)
PercentEncode(hs) ==
    IF hs = <<>> THEN <<>>
    ELSE <<"%", Head(hs)[1], Head(hs)[2]>> \o PercentEncode(Tail(hs))

EscapeRune(r) ==
    IF r \in Unreserved THEN <<r>>
    ELSE IF r = " " THEN <<"+">>
    ELSE PercentEncode(Utf8Hex(r))

QueryEscapeRaw(s) == s

RECURSIVE QueryEscape(_)
QueryEscape(s) ==
    IF s = <<>> THEN <<>> ELSE EscapeRune(Head(s)) \o QueryEscape(Tail(s))

\* A byte is written as the ASCII character it encodes, or as its two hex
\* digits when it is not ASCII.
HexByte(h1, h2) ==
    CASE <<h1, h2>> = <<"2", "B">> -> "+"
      [] <<h1, h2>> = <<"2", "5">> -> "%"
      [] <<h1, h2>> = <<"3", "F">> -> "?"
      [] <<h1, h2>> = <<"C", "3">> -> "C3"
      [] <<h1, h2>> = <<"A", "3">> -> "A3"
      [] <<h1, h2>> = <<"A", "9">> -> "A9"
      [] OTHER -> "??"

RECURSIVE UnescapeBytes(_)
UnescapeBytes(s) ==
    IF s = <<>> THEN <<>>
    ELSE IF Head(s) = "+" THEN <<" ">> \o UnescapeBytes(Tail(s))
    ELSE IF Head(s) = "%" /\ Len(s) >= 3
         THEN <<HexByte(s[2], s[3])>> \o UnescapeBytes(SubSeq(s, 4, Len(s)))
    ELSE <<Head(s)>> \o UnescapeBytes(Tail(s))

RECURSIVE Utf8Decode(_)
Utf8Decode(bs) ==
    IF bs = <<>> THEN <<>>
    ELSE IF Len(bs) >= 2 /\ bs[1] = "C3" /\ bs[2] = "A3"
         THEN <<"U+00E3">> \o Utf8Decode(SubSeq(bs, 3, Len(bs)))
    ELSE IF Len(bs) >= 2 /\ bs[1] = "C3" /\ bs[2] = "A9"
         THEN <<"U+00E9">> \o Utf8Decode(SubSeq(bs, 3, Len(bs)))
    ELSE <<Head(bs)>> \o Utf8Decode(Tail(bs))

\* What the receiving side reads from a query value: r.URL.Query().Get(..).
QueryUnescape(s) == Utf8Decode(UnescapeBytes(s))

\* ----------------------------------------------------------- temperatures
Fahrenheit(tempC) == (tempC * 18) \div 10 + 3200
KelvinPrecise(tempC) == tempC + 27315
Kelvin(tempC) == tempC + 27300
\* ------------------------------------------------------------ input domains
TraceIds == 1..MaxTraceId

Rio == <<"R", "i", "o">>
SaoPaulo == <<"S", "U+00E3", "o", " ", "P">>
AplusB == <<"A", "+", "B">>
Cities == {<<>>, Rio, SaoPaulo, AplusB}
Temps == {-550, 0, 2500, 3730}

NoTrace == [trace |-> 0, span |-> "none"]
ClientHeaders == {NoTrace} \cup {[trace |-> t, span |-> "client"] : t \in TraceIds}

RequestsA ==
    {[method |-> "GET", ok |-> FALSE, cep |-> <<>>],
     [method |-> "POST", ok |-> FALSE, cep |-> <<>>]}
    \cup {[method |-> "POST", ok |-> TRUE, cep |-> s] : s \in ZipStrings}

\* Answers of the location provider as the client of getLocation sees them.
LocResults ==
    {[kind |-> "neterr"], [kind |-> "badbody"],
     [kind |-> "json", obj |-> [erro |-> TRUE]]}
    \cup {[kind |-> "json", obj |-> [localidade |-> c]] : c \in Cities}

\* Answers of the weather provider as the client of getWeather sees them.
WeaResults ==
    {[kind |-> "neterr"], [kind |-> "badbody"],
     [kind |-> "json", obj |-> [error |-> TRUE]]}
    \cup {[kind |-> "json", obj |-> [current |-> [temp_c |-> t]]] : t \in Temps}

NoResp == [status |-> 0, body |-> [kind |-> "none"]]
NoReq == [method |-> "none", ok |-> FALSE, cep |-> <<>>]
NoCall == [state |-> "none", zipcode |-> <<>>, hdr |-> NoTrace]
NoIn == [zipcode |-> <<>>]
NoLoc == [city |-> <<>>, err |-> FALSE, set |-> FALSE]
NoWea == [temp |-> 0, err |-> FALSE, set |-> FALSE]

Text(status, msg) == [status |-> status, body |-> [kind |-> "text", msg |-> msg]]
Json(status, obj) == [status |-> status, body |-> [kind |-> "json", obj |-> obj]]

SpanInicialA == "SPAN_INICIAL service-a-request"
SpanInicialB == "SPAN_INICIAL service-b-request"
SpanCallB == "Chamada externa: getTemperatureByZipCode"
SpanLocation == "Chamada externa: getLocation"
SpanWeather == "Chamada externa: getWeather"

\* -------------------------------------------------------------------- state
VARIABLES
    reqA,    \* request received by service-a
    hdrA,    \* trace header of that request (r.Header, rewritten by Inject)
    ctxA,    \* ctx of zipCodeHandler
    pcA,     \* position of zipCodeHandler
    outA,    \* outbound call of service-a to service-b
    respA,   \* response of service-a to its caller
    inB,     \* request received by service-b
    hdrB,    \* trace header of that request
    ctxB,    \* ctx of temperatureHandler
    pcB,     \* position of temperatureHandler
    direct,  \* TRUE when service-b was called by a client, not by service-a
    loc,     \* what getLocation returned
    wea,     \* what getWeather returned
    respB,   \* response of service-b
    calls,   \* provider calls of this request, in order of issue
    spans,   \* spans started with h.tracer.Start, in order of start
    used     \* trace ids in use

vars == <<reqA, hdrA, ctxA, pcA, outA, respA, inB, hdrB, ctxB, pcB, direct,
          loc, wea, respB, calls, spans, used>>

varsA == <<reqA, hdrA, ctxA, pcA, outA, respA>>
varsB == <<inB, hdrB, ctxB, pcB, direct, loc, wea, respB, calls>>

Fresh == TraceIds \ used

\* ------------------------------------------------------------------- spans
\* tracer.Start(ctx, name): a child of the span active in ctx.
StartSpan(sps, svc, ctx, name) ==
    Append(sps, [svc |-> svc, name |-> name, trace |-> ctx.trace,
                 parent |-> ctx.span, ends |-> 0])

EndSpanForgotten(sps, svc, name) == sps

\* span.End()
EndSpan(sps, svc, name) ==
    [i \in DOMAIN sps |->
        IF sps[i].svc = svc /\ sps[i].name = name
        THEN [sps[i] EXCEPT !.ends = @ + 1] ELSE sps[i]]

\* Extract on the handler's ctx.  otelhttp.NewHandler has already put its
\* server span in r.Context(); a valid inbound traceparent replaces it as the
\* active (remote) span, with the same trace id.
ExtractCtx(hdr, fresh, serverSpan) ==
    IF hdr.trace # 0 THEN [trace |-> hdr.trace, span |-> hdr.span]
    ELSE [trace |-> fresh, span |-> serverSpan]

\* --------------------------------------------------------------- decoding
Field(obj, key, zero) == IF key \in DOMAIN obj THEN obj[key] ELSE zero

DecodeZipCodeResponse(obj) ==
    [City  |-> Field(obj, "city", <<>>),
     TempC |-> Field(obj, "temp_C", 0),
     TempF |-> Field(obj, "temp_F", 0),
     TempK |-> Field(obj, "temp_K", 0)]

EncodeResponse(z) ==
    [city |-> z.City, temp_C |-> z.TempC, temp_F |-> z.TempF, temp_K |-> z.TempK]

\* getLocation, from the provider's answer to its return values.
getLocationReturn(res) ==
    IF res.kind # "json" THEN [city |-> <<>>, err |-> TRUE, set |-> TRUE]
    ELSE [city |-> Field(res.obj, "localidade", <<>>), err |-> FALSE, set |-> TRUE]

\* getWeather, from the provider's answer to its return values.
getWeatherReturn(res) ==
    IF res.kind # "json" THEN [temp |-> 0, err |-> TRUE, set |-> TRUE]
    ELSE [temp |-> Field(Field(res.obj, "current", [none |-> 0]), "temp_c", 0),
          err |-> FALSE, set |-> TRUE]

locationRejectedErrOnly(l) == l.err

\* temperatureHandler: if err != nil || city == ""
locationRejected(l) == l.err \/ l.city = <<>>

\* temperatureHandler: the composed response.
compose(city, tempC) ==
    [City |-> city, TempC |-> tempC, TempF |-> Fahrenheit(tempC), TempK |-> Kelvin(tempC)]

\* zipCodeHandler, from the answer of service-b to the answer to the caller.
relay(resp) ==
    IF resp.status = StatusNotFound
    THEN Text(StatusNotFound, "can not find zipcode")
    ELSE IF resp.body.kind # "json"
    THEN Text(StatusInternalServerError, "json: invalid character")
    ELSE Json(resp.status, EncodeResponse(DecodeZipCodeResponse(resp.body.obj)))

\* -------------------------------------------------------------------- init
Init ==
    /\ reqA = NoReq /\ hdrA = NoTrace /\ ctxA = NoTrace /\ pcA = "idle"
    /\ outA = NoCall /\ respA = NoResp
    /\ inB = NoIn /\ hdrB = NoTrace /\ ctxB = NoTrace /\ pcB = "idle"
    /\ direct = FALSE /\ loc = NoLoc /\ wea = NoWea /\ respB = NoResp
    /\ calls = <<>> /\ spans = <<>> /\ used = {}

\* --------------------------------------------------------------- service-a
\* A client sends a request to service-a.
ClientSendA ==
    /\ pcA = "idle" /\ pcB = "idle"
    /\ \E r \in RequestsA, h \in ClientHeaders :
        /\ reqA' = r
        /\ hdrA' = h
        /\ used' = IF h.trace # 0 THEN {h.trace} ELSE {}
    /\ pcA' = "recv"
    /\ UNCHANGED <<ctxA, outA, respA, spans>>
    /\ UNCHANGED varsB

\* zipCodeHandler: Extract, the receipt-marker span, Inject into r.Header.
A_Begin ==
    /\ pcA = "recv"
    /\ \E f \in Fresh :
        LET ctx0 == ExtractCtx(hdrA, f, "ZipCodeHandler")
            ctx1 == [trace |-> ctx0.trace, span |-> SpanInicialA]
        IN /\ spans' = EndSpan(StartSpan(spans, "a", ctx0, SpanInicialA), "a", SpanInicialA)
           /\ ctxA' = ctx1
           /\ hdrA' = ctx1
           /\ used' = used \cup {ctx0.trace}
    /\ pcA' = "begun"
    /\ UNCHANGED <<reqA, outA, respA>>
    /\ UNCHANGED varsB

\* zipCodeHandler: method, body and shape tests, then the outbound call.
\* client.Get(url) builds its request on context.Background(), so the otelhttp
\* transport starts a root span of a new trace and injects that one.
A_Validate ==
    /\ pcA = "begun"
    /\ IF reqA.method # "POST"
       THEN /\ respA' = Text(StatusMethodNotAllowed, "Only POST method is allowed")
            /\ pcA' = "done"
            /\ UNCHANGED <<outA, spans, used>>
       ELSE IF ~reqA.ok
       THEN /\ respA' = Text(StatusBadRequest, "json: decode error")
            /\ pcA' = "done"
            /\ UNCHANGED <<outA, spans, used>>
       ELSE IF ~isValidZipCode(reqA.cep)
       THEN /\ respA' = Text(StatusPreconditionFailed, "invalid zipcode")
            /\ pcA' = "done"
            /\ UNCHANGED <<outA, spans, used>>
       ELSE \E f \in Fresh :
            /\ spans' = StartSpan(spans, "a", ctxA, SpanCallB)
            /\ outA' = [state |-> "inflight", zipcode |-> reqA.cep,
                        hdr |-> [trace |-> f, span |-> "HTTP GET"]]
            /\ used' = used \cup {f}
            /\ pcA' = "calling"
            /\ UNCHANGED respA
    /\ UNCHANGED <<reqA, hdrA, ctxA>>
    /\ UNCHANGED varsB

\* zipCodeHandler: client.Get returned an error.
A_TransportFail ==
    /\ pcA = "calling" /\ outA.state = "inflight"
    /\ pcB \in {"idle", "done"}
    /\ outA' = [outA EXCEPT !.state = "failed"]
    /\ respA' = Text(StatusInternalServerError, "transport error")
    /\ spans' = EndSpan(spans, "a", SpanCallB)
    /\ pcA' = "done"
    /\ UNCHANGED <<reqA, hdrA, ctxA, used>>
    /\ UNCHANGED varsB

\* zipCodeHandler: client.Get returned the response of service-b.
A_Relay ==
    /\ pcA = "calling" /\ outA.state = "inflight"
    /\ pcB = "done" /\ ~direct
    /\ outA' = [outA EXCEPT !.state = "returned"]
    /\ respA' = relay(respB)
    /\ spans' = EndSpan(spans, "a", SpanCallB)
    /\ pcA' = "done"
    /\ UNCHANGED <<reqA, hdrA, ctxA, used>>
    /\ UNCHANGED varsB
\* --------------------------------------------------------------- service-b
\* The outbound call of service-a reaches service-b.
B_ReceiveFromA ==
    /\ pcB = "idle" /\ outA.state = "inflight"
    /\ inB' = [zipcode |-> QueryUnescape(outA.zipcode)]
    /\ hdrB' = outA.hdr
    /\ direct' = FALSE
    /\ pcB' = "recv"
    /\ UNCHANGED <<ctxB, loc, wea, respB, calls, spans, used>>
    /\ UNCHANGED varsA

\* A client calls service-b itself (its port is published).
ClientSendB ==
    /\ pcA = "idle" /\ pcB = "idle"
    /\ \E z \in ZipStrings, h \in ClientHeaders :
        /\ inB' = [zipcode |-> z]
        /\ hdrB' = h
        /\ used' = IF h.trace # 0 THEN {h.trace} ELSE {}
    /\ direct' = TRUE
    /\ pcB' = "recv"
    /\ UNCHANGED <<ctxB, loc, wea, respB, calls, spans>>
    /\ UNCHANGED varsA

\* temperatureHandler: Extract, the receipt-marker span, Inject into r.Header.
B_Begin ==
    /\ pcB = "recv"
    /\ \E f \in (IF hdrB.trace # 0 THEN {hdrB.trace} ELSE Fresh) :
        LET ctx0 == ExtractCtx(hdrB, f, "TemperatureHandler")
            ctx1 == [trace |-> ctx0.trace, span |-> SpanInicialB]
        IN /\ spans' = EndSpan(StartSpan(spans, "b", ctx0, SpanInicialB), "b", SpanInicialB)
           /\ ctxB' = ctx1
           /\ hdrB' = ctx1
           /\ used' = used \cup {ctx0.trace}
    /\ pcB' = "begun"
    /\ UNCHANGED <<inB, direct, loc, wea, respB, calls>>
    /\ UNCHANGED varsA

\* temperatureHandler: the shape test, then getLocation up to client.Get.
\* The client of getLocation is a plain http.Client: nothing is injected.
B_Validate ==
    /\ pcB = "begun"
    /\ IF ~zipCodeAcceptedByB(inB.zipcode)
       THEN /\ respB' = Text(StatusPreconditionFailed, "invalid zipcode")
            /\ pcB' = "done"
            /\ UNCHANGED <<calls, spans>>
       ELSE /\ spans' = StartSpan(spans, "b", ctxB, SpanLocation)
            /\ calls' = Append(calls, [prov |-> "location", key |-> inB.zipcode,
                                       hdr |-> NoTrace, state |-> "inflight"])
            /\ pcB' = "location"
            /\ UNCHANGED respB
    /\ UNCHANGED <<inB, hdrB, ctxB, direct, loc, wea, used>>
    /\ UNCHANGED varsA

\* getLocation returns; temperatureHandler tests its result and runs
\* getWeather up to client.Get.
B_LocationReturn ==
    /\ pcB = "location"
    /\ \E res \in LocResults :
        LET l == getLocationReturn(res)
            returned == [calls EXCEPT ![Len(calls)].state = "returned"]
            ended == EndSpan(spans, "b", SpanLocation)
        IN /\ loc' = l
           /\ IF locationRejected(l)
              THEN /\ respB' = Text(StatusNotFound, "can not find zipcode")
                   /\ pcB' = "done"
                   /\ calls' = returned
                   /\ spans' = ended
              ELSE /\ spans' = StartSpan(ended, "b", ctxB, SpanWeather)
                   /\ calls' = Append(returned,
                                  [prov |-> "weather", key |-> QueryEscape(l.city),
                                   hdr |-> NoTrace, state |-> "inflight"])
                   /\ pcB' = "weather"
                   /\ UNCHANGED respB
    /\ UNCHANGED <<inB, hdrB, ctxB, direct, wea, used>>
    /\ UNCHANGED varsA

\* getWeather returns; temperatureHandler fails or composes the response.
B_WeatherReturn ==
    /\ pcB = "weather"
    /\ \E res \in WeaResults :
        LET w == getWeatherReturn(res)
        IN /\ wea' = w
           /\ respB' = IF w.err
                       THEN Text(StatusInternalServerError, "failed to get weather info")
                       ELSE Json(StatusOK, EncodeResponse(compose(loc.city, w.temp)))
    /\ calls' = [calls EXCEPT ![Len(calls)].state = "returned"]
    /\ spans' = EndSpan(spans, "b", SpanWeather)
    /\ pcB' = "done"
    /\ UNCHANGED <<inB, hdrB, ctxB, direct, loc, used>>
    /\ UNCHANGED varsA

\* The caller has its answer; the next request starts from scratch.
ClientReceives ==
    /\ \/ pcA = "done"
       \/ direct /\ pcB = "done"
    /\ reqA' = NoReq /\ hdrA' = NoTrace /\ ctxA' = NoTrace /\ pcA' = "idle"
    /\ outA' = NoCall /\ respA' = NoResp
    /\ inB' = NoIn /\ hdrB' = NoTrace /\ ctxB' = NoTrace /\ pcB' = "idle"
    /\ direct' = FALSE /\ loc' = NoLoc /\ wea' = NoWea /\ respB' = NoResp
    /\ calls' = <<>> /\ spans' = <<>> /\ used' = {}

Next ==
    \/ ClientSendA
    \/ A_Begin
    \/ A_Validate
    \/ A_TransportFail
    \/ A_Relay
    \/ B_ReceiveFromA
    \/ ClientSendB
    \/ B_Begin
    \/ B_Validate
    \/ B_LocationReturn
    \/ B_WeatherReturn
    \/ ClientReceives

Spec == Init /\ [][Next]_vars

TypeOK ==
    /\ pcA \in {"idle", "recv", "begun", "calling", "done"}
    /\ pcB \in {"idle", "recv", "begun", "location", "weather", "done"}
    /\ used \subseteq TraceIds
    /\ Len(calls) <= 2
\* ------------------------------------------------- vocabulary of the claims
\* Exactly 8 ASCII digits, stated without the validators of the services.
WellFormed(s) == s \in [1..8 -> Digits]

SpansOf(svc) == {i \in DOMAIN spans : spans[i].svc = svc}
SpanOpen(svc, name) ==
    \E i \in SpansOf(svc) : spans[i].name = name /\ spans[i].ends = 0
SpanClosedOnce(svc, name) ==
    \E i \in SpansOf(svc) : spans[i].name = name /\ spans[i].ends = 1
InFlight == {i \in DOMAIN calls : calls[i].state = "inflight"}
CallSpan(prov) == IF prov = "location" THEN SpanLocation ELSE SpanWeather
HandlingA == pcA \in {"begun", "calling", "done"}
HandlingB == pcB \in {"begun", "location", "weather", "done"}
NotFoundAnswer == Text(404, "can not find zipcode")

\* C1: the trace id service-b extracts for a forwarded request is the trace
\* id service-a holds for that request, and the header service-a injected is
\* the header of its outbound call.
C1_TraceIdRoundTrip ==
    (HandlingB /\ ~direct) =>
        /\ ctxB.trace = ctxA.trace
        /\ outA.hdr = hdrA

\* C2: in service-b an error returned by getLocation or getWeather gives 500
\* with no composed body, and 404 is given only when getLocation returned no
\* error and an empty locality.
C2_ProviderErrorsAreUpstreamErrors ==
    pcB = "done" =>
        /\ ((loc.set /\ loc.err) \/ (wea.set /\ wea.err)) =>
               (respB.status = 500 /\ respB.body.kind # "json")
        /\ respB.status = 404 => (loc.set /\ ~loc.err /\ loc.city = <<>>)

\* C3: service-b answers InvalidInput and calls no provider for every zipcode
\* that is not exactly 8 ASCII digits.
C3_ServiceBRejectsMalformed ==
    (HandlingB /\ ~WellFormed(inB.zipcode)) =>
        /\ calls = <<>>
        /\ pcB \in {"begun", "done"}
        /\ pcB = "done" => respB.status \in {412, 422}

\* C4: for a POST whose body decodes, service-a issues the outbound call iff
\* cep is exactly 8 ASCII digits; otherwise it answers the validation-failure
\* status, and neither service-b nor a provider is contacted.
C4_OutboundIffWellFormed ==
    (reqA.method = "POST" /\ reqA.ok /\ pcA \in {"calling", "done"}) =>
        /\ outA.state # "none" <=> WellFormed(reqA.cep)
        /\ ~WellFormed(reqA.cep) =>
              /\ respA = Text(412, "invalid zipcode")
              /\ pcB = "idle" /\ calls = <<>>

C4_Witness ==
    /\ pcA = "done" /\ reqA.method = "POST" /\ reqA.ok
    /\ Len(reqA.cep) = 8 /\ ~WellFormed(reqA.cep)
    /\ respA.status = 412 /\ outA.state = "none"

\* C5: service-a answers its caller with the status and the body service-b
\* returned, and with 500 when the outbound call itself failed.
C5_RelayVerbatim ==
    pcA = "done" =>
        /\ outA.state = "returned" => respA = respB
        /\ outA.state = "failed" => respA.status = 500

\* C6: when getLocation returned an empty locality without error, no weather
\* call is made, service-b answers 404 "can not find zipcode", and so does
\* service-a once it has the answer of service-b.
C6_UnknownCode ==
    (loc.set /\ ~loc.err /\ loc.city = <<>>) =>
        /\ \A i \in DOMAIN calls : calls[i].prov # "weather"
        /\ pcB = "done" /\ respB = NotFoundAnswer
        /\ (pcA = "done" /\ outA.state = "returned") => respA = NotFoundAnswer

C6_Witness ==
    /\ loc.set /\ ~loc.err /\ loc.city = <<>>
    /\ WellFormed(reqA.cep)
    /\ pcA = "done" /\ outA.state = "returned" /\ respA.status = 404
    /\ Len(calls) = 1

\* C7: every remote call is made while its own span is open, carries the
\* trace context of the handling request with that span as parent, and its
\* span is closed once the call is over.
C7_RemoteCallsCarryContext ==
    /\ outA.state = "inflight" =>
          /\ SpanOpen("a", SpanCallB)
          /\ outA.hdr = [trace |-> ctxA.trace, span |-> SpanCallB]
    /\ outA.state \in {"returned", "failed"} => SpanClosedOnce("a", SpanCallB)
    /\ \A i \in DOMAIN calls :
          /\ calls[i].hdr = [trace |-> ctxB.trace, span |-> CallSpan(calls[i].prov)]
          /\ calls[i].state = "inflight" => SpanOpen("b", CallSpan(calls[i].prov))
          /\ calls[i].state = "returned" => SpanClosedOnce("b", CallSpan(calls[i].prov))

\* C8: a 200 answer has temp_F = temp_C*1.8+32 and temp_K = temp_C+273 with
\* temp_C the reading of getWeather and city the locality of getLocation, and
\* service-a gives its caller the same four values.
C8_ComposedResponse ==
    LET expected(o) ==
            /\ DOMAIN o = {"city", "temp_C", "temp_F", "temp_K"}
            /\ o.city = loc.city
            /\ o.temp_C = wea.temp
            /\ 10 * o.temp_F = 18 * o.temp_C + 32000
            /\ o.temp_K = o.temp_C + 27300
    IN /\ (pcB = "done" /\ respB.status = 200) =>
              (respB.body.kind = "json" /\ expected(respB.body.obj))
       /\ (pcA = "done" /\ respA.status = 200) =>
              (respA.body.kind = "json" /\ expected(respA.body.obj)
               /\ wea.set /\ ~wea.err /\ loc.city # <<>>)

C8_Witness ==
    /\ pcA = "done" /\ respA.status = 200
    /\ respA.body.obj = [city |-> SaoPaulo, temp_C |-> 2500, temp_F |-> 7700,
                         temp_K |-> 29800]

\* C9: the provider calls of a request are a prefix of <location, weather>;
\* the weather call exists only once the location call has returned a
\* non-empty locality without error, is keyed by that locality, and at most
\* one call is in flight.
C9_CallOrder ==
    /\ Len(calls) <= 2
    /\ \A i \in DOMAIN calls : calls[i].prov = (IF i = 1 THEN "location" ELSE "weather")
    /\ Cardinality(InFlight) <= 1
    /\ Len(calls) = 2 =>
          /\ calls[1].state = "returned"
          /\ loc.set /\ ~loc.err /\ loc.city # <<>>
          /\ QueryUnescape(calls[2].key) = loc.city
    /\ Len(calls) >= 1 => calls[1].key = inB.zipcode

C9_Witness ==
    /\ Len(calls) = 2 /\ calls[2].state = "inflight"
    /\ loc.city = AplusB

\* C10: every started span is ended exactly once by the time its handler
\* returns, whatever the exit path, no span is ended twice, and the
\* receipt-marker span is ended before validation or any remote call.
C10_SpanLifecycle ==
    /\ \A i \in DOMAIN spans : spans[i].ends <= 1
    /\ \A i, j \in DOMAIN spans :
          (spans[i].svc = spans[j].svc /\ spans[i].name = spans[j].name) => i = j
    /\ pcA = "done" => \A i \in SpansOf("a") : spans[i].ends = 1
    /\ pcB = "done" => \A i \in SpansOf("b") : spans[i].ends = 1
    /\ HandlingA => SpanClosedOnce("a", SpanInicialA)
    /\ HandlingB => SpanClosedOnce("b", SpanInicialB)
    /\ outA.state # "none" => SpanClosedOnce("a", SpanInicialA)
    /\ calls # <<>> => SpanClosedOnce("b", SpanInicialB)
    /\ \A i \in InFlight : SpanOpen("b", CallSpan(calls[i].prov))
    /\ outA.state = "inflight" => SpanOpen("a", SpanCallB)

C10_Witness ==
    /\ pcA = "done" /\ pcB = "done" /\ respA.status = 500
    /\ wea.set /\ wea.err
    /\ Len(spans) = 5 /\ \A i \in DOMAIN spans : spans[i].ends = 1
====
